---- MODULE Spec2Model ----
(***************************************************************************)
(* dziennik_rust: the bridge between the asynchronous HTTP handlers and    *)
(* the blocking store.  Handlers send typed messages to a SyncArbiter of   *)
(* Database actors (src/main.rs:117-119); each actor thread takes one      *)
(* message at a time, borrows a pooled connection, runs one store          *)
(* statement and answers through the message's oneshot channel             *)
(* (src/students/models/delete.rs:43-51).  The extractor error handlers    *)
(* (src/main.rs:52-79) answer malformed bodies and path ids before a       *)
(* handler runs.                                                           *)
(***************************************************************************)
EXTENDS Integers, Sequences, FiniteSets, TLC

\* ------------------------------------------------------------------ bounds
\* SyncArbiter::start(12, ..) starts 12 actor threads; the model runs the
\* same dispatch with a smaller number of threads.
Threads == 2
\* Connections owned by the r2d2 pool built by database::pool().
PoolSize == 1
\* Requests accepted during one run.
MaxReq == 4
\* Requests accepted during one run when they go to all five routes.
MaxRouteReq == 2
\* Rows 1..InitRows are in the students table when the server starts.
InitRows == 2

Workers == 1..Threads
Conns == 1..PoolSize
ReqIds == 1..MaxReq

\* ------------------------------------------------------------------ inputs
POST_STUDENTS == "POST /students"
GET_STUDENTS == "GET /students"
PUT_STUDENT == "PUT /students/{id}"
DELETE_STUDENT == "DELETE /students/{id}"
POST_LOGIN == "POST /login"

Routes == {POST_STUDENTS, GET_STUDENTS, PUT_STUDENT, DELETE_STUDENT, POST_LOGIN}

\* The {id} path segment as the characters the client sent.
PathSegs == {<<"1">>, <<"1", "x">>}
NoPath == <<>>

\* A request body as its JSON tokens; BadBody is cut short.
StudentBody == <<"{", "first_name", "b", "}">>
LoginBody == <<"{", "password", "secret", "}">>
WrongLoginBody == <<"{", "password", "guess", "}">>
BadBody == <<"{", "first_name">>
NoBody == <<>>

HasPath(route) == route \in {PUT_STUDENT, DELETE_STUDENT}
HasJson(route) == route \in {POST_STUDENTS, PUT_STUDENT, POST_LOGIN}

BodiesOf(route) ==
    CASE route = POST_LOGIN -> {LoginBody, WrongLoginBody, BadBody}
      [] route \in {POST_STUDENTS, PUT_STUDENT} -> {StudentBody, BadBody}
      [] OTHER -> {NoBody}

\* What a client can send: a route, its {id} segment and its body.
Inputs ==
    {[route |-> r, path |-> p, body |-> b] :
        r \in Routes, p \in PathSegs \cup {NoPath}, b \in {StudentBody, LoginBody, WrongLoginBody, BadBody, NoBody}}

ValidInput(i) ==
    /\ i \in Inputs
    /\ IF HasPath(i.route) THEN i.path \in PathSegs ELSE i.path = NoPath
    /\ i.body \in BodiesOf(i.route)

\* ---------------------------------------------------------------- extractors
DigitVal(c) ==
    CASE c = "0" -> 0 [] c = "1" -> 1 [] c = "2" -> 2 [] c = "3" -> 3
      [] c = "4" -> 4 [] c = "5" -> 5 [] c = "6" -> 6 [] c = "7" -> 7
      [] c = "8" -> 8 [] c = "9" -> 9 [] OTHER -> -1

RECURSIVE ParseDigits(_, _)
ParseDigits(seg, acc) ==
    IF seg = <<>> THEN acc
    ELSE IF DigitVal(Head(seg)) < 0 THEN -1
    ELSE ParseDigits(Tail(seg), acc * 10 + DigitVal(Head(seg)))

\* A parse that stops at the first character that is no digit and keeps the
\* digits before it.
RECURSIVE DigitPrefix(_, _)
DigitPrefix(seg, acc) ==
    IF seg = <<>> \/ DigitVal(Head(seg)) < 0 THEN acc
    ELSE DigitPrefix(Tail(seg), acc * 10 + DigitVal(Head(seg)))

ParseI32Lenient(seg) == DigitPrefix(seg, 0)

\* Path<i32>: the segment parsed as a decimal integer; -1 stands for Err.
ParseI32(seg) == IF seg = <<>> THEN -1 ELSE ParseDigits(seg, 0)

\* The field a route's body type requires.
BodyField(route) == IF route = POST_LOGIN THEN "password" ELSE "first_name"

\* Json<T>: the body parsed as one object holding the field T needs.
JsonOk(route, body) ==
    /\ Len(body) = 4
    /\ body[1] = "{"
    /\ body[2] = BodyField(route)
    /\ body[4] = "}"

JsonField(body) == body[3]

\* The extractor tuple of a route, run left to right: the path first, then
\* the body.  "ok" with the decoded id and field, or the extractor that failed.
Extract(route, path, body) ==
    IF HasPath(route) /\ ParseI32(path) < 0
    THEN [ok |-> FALSE, failed |-> "path", id |-> 0, field |-> ""]
    ELSE IF HasJson(route) /\ ~JsonOk(route, body)
    THEN [ok |-> FALSE, failed |-> "json", id |-> 0, field |-> ""]
    ELSE [ok |-> TRUE, failed |-> "",
          id |-> IF HasPath(route) THEN ParseI32(path) ELSE 0,
          field |-> IF HasJson(route) THEN JsonField(body) ELSE ""]

\* format!("{}", err) of the two decode errors.
JsonErrText == "Json deserialize error"
PathErrText == "invalid digit found in string"

\* An HTTP response: the status and the JSON body.
Response(status, body) == [status |-> status, body |-> body]
NoResp == Response(0, <<>>)

\* JsonError{message} serialized: {"message": <string>}.
JsonError(message) == <<"message", message>>

json_error_handler(err) == Response(400, JsonError(err))
path_error_handler(err) == Response(400, JsonError(err))

\* The error handler main() configures for the extractor that failed.
ErrorResponse(failed) ==
    IF failed = "path" THEN path_error_handler(PathErrText)
    ELSE json_error_handler(JsonErrText)

\* Handlers that capture the text of their log line instead of message.
ErrorDebugText(failed) == IF failed = "path" THEN "Bad path id" ELSE "Bad json data"

\* message: format!("{}", err), the string both handlers pass on.
ErrorText(failed) == IF failed = "path" THEN PathErrText ELSE JsonErrText

\* hub.capture_message(message.as_str(), Level::Error): the event on the sink.
capture_message(message, level) == [message |-> message, level |-> level]

\* ------------------------------------------------------------------- state
VARIABLES
    reqs,       \* the requests accepted so far, in arrival order
    hstate,     \* per request: the handler future ("none", "awaiting", "responded", "panicked")
    resp,       \* per request: the HTTP response sent, NoResp while there is none
    sink,       \* messages captured by the sentry hub, in order
    mailbox,    \* messages sent to the Database address and not yet received
    wstate,     \* per actor thread: "idle", "get", "execute", "return", "dead"
    wmsg,       \* per actor thread: the message it is handling
    wconn,      \* per actor thread: the pooled connection it holds, 0 for none
    wres,       \* per actor thread: the result of its store statement
    free,       \* the idle connections of the pool
    reply,      \* per request: what the oneshot channel of its message delivered
    students,   \* the rows of the students table
    nextId,     \* the next identifier the store assigns
    sent,       \* per request: how many messages its handler has sent
    execCount,  \* per request: how many times the store ran its statement
    getFailed   \* per request: why pool.get() failed for it ("no" while it has not)

vars == <<reqs, hstate, resp, sink, mailbox, wstate, wmsg, wconn, wres, free,
          reply, students, nextId, sent, execCount, getFailed>>

\* The five protocol messages.
Ops == {"Create", "Read", "Update", "Delete", "Authenticate"}

OpOf(route) ==
    CASE route = POST_STUDENTS -> "Create"
      [] route = GET_STUDENTS -> "Read"
      [] route = PUT_STUDENT -> "Update"
      [] route = DELETE_STUDENT -> "Delete"
      [] route = POST_LOGIN -> "Authenticate"

\* A message in the mailbox: the request whose oneshot sender it carries, the
\* operation and its data.
Msg(rid, op, id, field) == [rid |-> rid, op |-> op, id |-> id, field |-> field]
NoMsg == Msg(0, "None", 0, "")

\* DeleteRequest{id: id.clone()}
DeleteRequest(rid, id) == Msg(rid, "Delete", id, "")

\* What a oneshot channel delivers: Ok(Ok(v)), Ok(Err(e)) or Err(MailboxError::Closed).
NoReply == [kind |-> "None"]
OkReply(v) == [kind |-> "Ok", val |-> v]
ErrReply(e) == [kind |-> "Err", err |-> e]
ClosedReply == [kind |-> "Closed"]

Row(id, name) == [id |-> id, first_name |-> name]

Init ==
    /\ reqs = <<>>
    /\ hstate = [r \in ReqIds |-> "none"]
    /\ resp = [r \in ReqIds |-> NoResp]
    /\ sink = <<>>
    /\ mailbox = <<>>
    /\ wstate = [w \in Workers |-> "idle"]
    /\ wmsg = [w \in Workers |-> NoMsg]
    /\ wconn = [w \in Workers |-> 0]
    /\ wres = [w \in Workers |-> NoReply]
    /\ free = Conns
    /\ reply = [r \in ReqIds |-> NoReply]
    /\ students = {Row(i, "a") : i \in 1..InitRows}
    /\ nextId = InitRows + 1
    /\ sent = [r \in ReqIds |-> 0]
    /\ execCount = [r \in ReqIds |-> 0]
    /\ getFailed = [r \in ReqIds |-> "no"]

workerVars == <<wstate, wmsg, wconn, wres, free>>
storeVars == <<students, nextId, execCount>>
httpVars == <<reqs, hstate, resp, sink, sent>>

\* --------------------------------------------------------- request boundary
\* A request whose path or body does not decode: the extractor's error
\* handler logs, captures the message on the hub and answers 400; the route's
\* handler is never called.
DecodeError(input, limit) ==
    LET rid == Len(reqs) + 1
        ex == Extract(input.route, input.path, input.body)
    IN  /\ Len(reqs) < limit
        /\ ValidInput(input)
        /\ ~ex.ok
        /\ reqs' = Append(reqs, input)
        /\ sink' = Append(sink, capture_message(ErrorText(ex.failed), "error"))
        /\ resp' = [resp EXCEPT ![rid] = ErrorResponse(ex.failed)]
        /\ hstate' = [hstate EXCEPT ![rid] = "responded"]
        /\ UNCHANGED <<mailbox, workerVars, reply, storeVars, sent, getFailed>>

\* A handler that sends its message a second time.
SubmitTwice(q, m) == Append(Append(q, m), m)

\* Addr::send: the message joins the mailbox of the Database address, once.
Submit(q, m) == Append(q, m)

\* A handler that sends only while an actor thread is idle.
delete_send_when_idle(input, limit) ==
    LET rid == Len(reqs) + 1
        ex == Extract(input.route, input.path, input.body)
    IN  /\ \E w \in Workers : wstate[w] = "idle"
        /\ Len(reqs) < limit
        /\ ValidInput(input)
        /\ input.route = DELETE_STUDENT
        /\ ex.ok
        /\ reqs' = Append(reqs, input)
        /\ mailbox' = Submit(mailbox, DeleteRequest(rid, ex.id))
        /\ sent' = [sent EXCEPT ![rid] = @ + (Len(mailbox') - Len(mailbox))]
        /\ hstate' = [hstate EXCEPT ![rid] = "awaiting"]
        /\ UNCHANGED <<resp, sink, workerVars, reply, storeVars, getFailed>>

\* delete(): the path decoded; send DeleteRequest to the Database address and
\* wait for its result.
delete_send(input, limit) ==
    LET rid == Len(reqs) + 1
        ex == Extract(input.route, input.path, input.body)
    IN  /\ Len(reqs) < limit
        /\ ValidInput(input)
        /\ input.route = DELETE_STUDENT
        /\ ex.ok
        /\ reqs' = Append(reqs, input)
        /\ mailbox' = Submit(mailbox, DeleteRequest(rid, ex.id))
        /\ sent' = [sent EXCEPT ![rid] = @ + (Len(mailbox') - Len(mailbox))]
        /\ hstate' = [hstate EXCEPT ![rid] = "awaiting"]
        /\ UNCHANGED <<resp, sink, workerVars, reply, storeVars, getFailed>>

\* The id of a decoded request, as the handler holds it.
IdOf(r) == ParseI32(reqs[r].path)

\* The 200 and 400 bodies of delete().
DeletedBody(id) == <<"message", <<"Deleted student with id: ", id, ".">>>>
NotDeletedBody(n) ==
    <<"message", <<"Something went wrong! I only know I deleted ", n, " rows though.">>>>

\* The closure with the comparison n >= 0.
DeleteResponseAnyCount(id, n) ==
    IF n >= 0 THEN Response(200, DeletedBody(id)) ELSE Response(400, NotDeletedBody(n))

\* The and_then closure of delete(), given Ok(num_of_del_rows).
DeleteResponse(id, n) ==
    IF n > 0 THEN Response(200, DeletedBody(id)) ELSE Response(400, NotDeletedBody(n))

\* MailboxError as an actix_web::Error: the default 500 response.
MailboxErrorResponse == Response(500, <<>>)

\* delete() resumed by the oneshot channel: from_err turns a MailboxError into
\* the error response, expect() panics on a store error, and the count
\* chooses between 200 and 400.
delete_then(r) ==
    /\ r \in 1..Len(reqs)
    /\ reqs[r].route = DELETE_STUDENT
    /\ hstate[r] = "awaiting"
    /\ reply[r].kind # "None"
    /\ CASE reply[r].kind = "Closed" ->
              /\ resp' = [resp EXCEPT ![r] = MailboxErrorResponse]
              /\ hstate' = [hstate EXCEPT ![r] = "responded"]
         [] reply[r].kind = "Err" ->
              /\ resp' = resp
              /\ hstate' = [hstate EXCEPT ![r] = "panicked"]
         [] reply[r].kind = "Ok" ->
              /\ resp' = [resp EXCEPT ![r] = DeleteResponse(IdOf(r), reply[r].val)]
              /\ hstate' = [hstate EXCEPT ![r] = "responded"]
    /\ UNCHANGED <<reqs, sink, mailbox, workerVars, reply, storeVars, sent, getFailed>>

\* students::create, students::read, students::update and login::login: the
\* body and path decoded; send the route's message and wait for its result.
handler_send(input, limit) ==
    LET rid == Len(reqs) + 1
        ex == Extract(input.route, input.path, input.body)
    IN  /\ Len(reqs) < limit
        /\ ValidInput(input)
        /\ input.route # DELETE_STUDENT
        /\ ex.ok
        /\ reqs' = Append(reqs, input)
        /\ mailbox' = Submit(mailbox, Msg(rid, OpOf(input.route), ex.id, ex.field))
        /\ sent' = [sent EXCEPT ![rid] = @ + (Len(mailbox') - Len(mailbox))]
        /\ hstate' = [hstate EXCEPT ![rid] = "awaiting"]
        /\ UNCHANGED <<resp, sink, workerVars, reply, storeVars, getFailed>>

\* Handlers that answer a negative authentication like a failure.
HandlerResponseAuthAsError(op, rep) ==
    IF rep.kind # "Ok" \/ (op = "Authenticate" /\ rep.val = FALSE)
    THEN Response(500, <<"message", "error">>)
    ELSE Response(200, <<op, rep.val>>)

\* The response of the other four handlers to a result: 200 with the payload,
\* an unauthorized response to a negative authentication, 500 to an error.
HandlerResponse(op, rep) ==
    IF rep.kind # "Ok" THEN Response(500, <<"message", "error">>)
    ELSE IF op = "Authenticate" /\ rep.val = FALSE THEN Response(401, <<"outcome", FALSE>>)
    ELSE Response(200, <<op, rep.val>>)

handler_then(r) ==
    /\ r \in 1..Len(reqs)
    /\ reqs[r].route # DELETE_STUDENT
    /\ hstate[r] = "awaiting"
    /\ reply[r].kind # "None"
    /\ resp' = [resp EXCEPT ![r] = HandlerResponse(OpOf(reqs[r].route), reply[r])]
    /\ hstate' = [hstate EXCEPT ![r] = "responded"]
    /\ UNCHANGED <<reqs, sink, mailbox, workerVars, reply, storeVars, sent, getFailed>>

\* ------------------------------------------------------------- worker pool
\* A queue that hands out its newest message.
RecvLast(q) == Len(q)

\* The position in the queue a receiving thread takes its message from.
RecvIndex(q) == 1

\* A thread that receives while its handler is still running.
CanRecvWhileBusy(w) == wstate[w] # "dead"

\* A thread is in recv() only between two messages.
CanRecv(w) == wstate[w] = "idle"

RemoveAt(q, i) == SubSeq(q, 1, i - 1) \o SubSeq(q, i + 1, Len(q))

\* SyncContext::run: a thread blocked in recv() takes the oldest message and
\* calls its handler.  The threads are interchangeable (one factory builds
\* every actor), so of the threads blocked in recv() the one that gets the
\* message is taken to be the first.
Recv(w) ==
    /\ CanRecv(w)
    /\ \A v \in Workers : CanRecv(v) => w <= v
    /\ mailbox # <<>>
    /\ wmsg' = [wmsg EXCEPT ![w] = mailbox[RecvIndex(mailbox)]]
    /\ mailbox' = RemoveAt(mailbox, RecvIndex(mailbox))
    /\ wstate' = [wstate EXCEPT ![w] = "get"]
    /\ UNCHANGED <<httpVars, wconn, wres, free, reply, storeVars, getFailed>>

\* self.0.get() returning Ok: the pool lends an idle connection.
GetConn(w) ==
    /\ wstate[w] = "get"
    /\ \E c \in free :
         /\ free' = free \ {c}
         /\ wconn' = [wconn EXCEPT ![w] = c]
    /\ wstate' = [wstate EXCEPT ![w] = "execute"]
    /\ UNCHANGED <<httpVars, mailbox, wmsg, wres, reply, storeVars, getFailed>>

\* Why get() returns Err: no idle connection before the timeout, or none that
\* could be opened.
GetError == IF free = {} THEN "exhausted" ELSE "unavailable"

\* A thread that puts the message back for another attempt.
AfterGetFailRequeue(w) ==
    /\ wstate' = [wstate EXCEPT ![w] = "idle"]
    /\ wmsg' = [wmsg EXCEPT ![w] = NoMsg]
    /\ reply' = reply
    /\ mailbox' = Append(mailbox, wmsg[w])

\* What the thread does with the message whose get() failed: unwrap() panics,
\* the envelope is dropped with its oneshot sender and the thread ends.
AfterGetFail(w) ==
    /\ wstate' = [wstate EXCEPT ![w] = "dead"]
    /\ wmsg' = [wmsg EXCEPT ![w] = NoMsg]
    /\ reply' = [reply EXCEPT ![wmsg[w].rid] = ClosedReply]
    /\ mailbox' = mailbox

\* Handler<DeleteRequest>::handle, self.0.get() returning Err.
GetFail(w) ==
    /\ wstate[w] = "get"
    /\ wmsg[w].op = "Delete"
    /\ getFailed' = [getFailed EXCEPT ![wmsg[w].rid] = GetError]
    /\ AfterGetFail(w)
    /\ UNCHANGED <<httpVars, wconn, wres, free, storeVars>>

\* The rows diesel::delete(students.filter(id.eq(msg.id))) removes and leaves.
DeleteCount(rows, id) == Cardinality({s \in rows : s.id = id})
\* A statement without the filter on the id: every row goes.
DeleteAllRows(rows, id) == {}
DeleteRows(rows, id) == {s \in rows : s.id # id}

\* Handler<DeleteRequest>::handle, the statement: Ok(count) with the rows
\* removed, or the store's error with the table as it was.
DeleteExecute(w) ==
    /\ wstate[w] = "execute"
    /\ wmsg[w].op = "Delete"
    /\ \/ /\ wres' = [wres EXCEPT ![w] = OkReply(DeleteCount(students, wmsg[w].id))]
          /\ students' = DeleteRows(students, wmsg[w].id)
       \/ /\ wres' = [wres EXCEPT ![w] = ErrReply("DatabaseError")]
          /\ students' = students
    /\ execCount' = [execCount EXCEPT ![wmsg[w].rid] = @ + 1]
    /\ wstate' = [wstate EXCEPT ![w] = "return"]
    /\ UNCHANGED <<httpVars, mailbox, wmsg, wconn, free, reply, nextId, getFailed>>

\* A connection given back only after a statement that succeeded.
ReleaseConnOnOk(w) == IF wres[w].kind = "Ok" THEN free \cup {wconn[w]} ELSE free

\* The pool after the PooledConnection of thread w is dropped.
ReleaseConn(w) == free \cup {wconn[w]}

\* handle returns: conn goes out of scope, the result goes to the oneshot
\* channel and the thread is back in recv().
Return(w) ==
    /\ wstate[w] = "return"
    /\ free' = ReleaseConn(w)
    /\ wconn' = [wconn EXCEPT ![w] = 0]
    /\ reply' = [reply EXCEPT ![wmsg[w].rid] = wres[w]]
    /\ wres' = [wres EXCEPT ![w] = NoReply]
    /\ wmsg' = [wmsg EXCEPT ![w] = NoMsg]
    /\ wstate' = [wstate EXCEPT ![w] = "idle"]
    /\ UNCHANGED <<httpVars, mailbox, storeVars, getFailed>>

\* The handlers of the other four messages, no connection to borrow: the
\* failure is returned as the message's error and the thread goes on.
GetFailValue(w) ==
    /\ wstate[w] = "get"
    /\ wmsg[w].op # "Delete"
    /\ getFailed' = [getFailed EXCEPT ![wmsg[w].rid] = GetError]
    /\ reply' = [reply EXCEPT ![wmsg[w].rid] = ErrReply("ConnectionUnavailable")]
    /\ wmsg' = [wmsg EXCEPT ![w] = NoMsg]
    /\ wstate' = [wstate EXCEPT ![w] = "idle"]
    /\ UNCHANGED <<httpVars, mailbox, wconn, wres, free, storeVars>>

\* An update that adds the row when none has the id.
UpdateRowsUpsert(rows, id, name) ==
    {IF s.id = id THEN Row(id, name) ELSE s : s \in rows} \cup {Row(id, name)}

\* The store statements of the other four messages.
UpdateCount(rows, id) == Cardinality({s \in rows : s.id = id})
UpdateRows(rows, id, name) ==
    {IF s.id = id THEN Row(id, name) ELSE s : s \in rows}
Password == "secret"

\* A listing that leaves out the rows added since the start.
ReadInitialRows(rows) == {s \in rows : s.id <= InitRows}

\* Read: the full table.
ReadRows(rows) == rows

\* A store that hands out the same identifier again.
NextIdReused(m) == nextId

\* The identifier the store assigns after this statement.
NextIdAfter(m) == IF m.op = "Create" THEN nextId + 1 ELSE nextId

StoreResult(m) ==
    CASE m.op = "Create" -> Row(nextId, m.field)
      [] m.op = "Read" -> ReadRows(students)
      [] m.op = "Update" -> UpdateCount(students, m.id)
      [] m.op = "Authenticate" -> (m.field = Password)

StoreRows(m) ==
    CASE m.op = "Create" -> students \cup {Row(nextId, m.field)}
      [] m.op = "Update" -> UpdateRows(students, m.id, m.field)
      [] OTHER -> students

Execute(w) ==
    /\ wstate[w] = "execute"
    /\ wmsg[w].op # "Delete"
    /\ \/ /\ wres' = [wres EXCEPT ![w] = OkReply(StoreResult(wmsg[w]))]
          /\ students' = StoreRows(wmsg[w])
          /\ nextId' = NextIdAfter(wmsg[w])
       \/ /\ wres' = [wres EXCEPT ![w] = ErrReply("DatabaseError")]
          /\ UNCHANGED <<students, nextId>>
    /\ execCount' = [execCount EXCEPT ![wmsg[w].rid] = @ + 1]
    /\ wstate' = [wstate EXCEPT ![w] = "return"]
    /\ UNCHANGED <<httpVars, mailbox, wmsg, wconn, free, reply, getFailed>>

\* ------------------------------------------------------------ specification
DeleteInputs == {i \in Inputs : i.route = DELETE_STUDENT}

\* The steps of the actor threads.
Pool ==
    \/ \E w \in Workers : Recv(w)
    \/ \E w \in Workers : GetConn(w)
    \/ \E w \in Workers : GetFail(w)
    \/ \E w \in Workers : DeleteExecute(w)
    \/ \E w \in Workers : Return(w)

\* The worker pool under DELETE /students/{id} requests whose id decodes.
Next ==
    \/ \E input \in DeleteInputs : delete_send(input, MaxReq)
    \/ \E r \in ReqIds : delete_then(r)
    \/ Pool

Spec == Init /\ [][Next]_vars

\* The server under requests to all five routes, well-formed or not.
NextRoutes ==
    \/ \E input \in Inputs : DecodeError(input, MaxRouteReq)
    \/ \E input \in DeleteInputs : delete_send(input, MaxRouteReq)
    \/ \E input \in Inputs : handler_send(input, MaxRouteReq)
    \/ \E r \in ReqIds : delete_then(r)
    \/ \E r \in ReqIds : handler_then(r)
    \/ Pool
    \/ \E w \in Workers : GetFailValue(w)
    \/ \E w \in Workers : Execute(w)

SpecRoutes == Init /\ [][NextRoutes]_vars

\* The next step of actor thread w: it is in recv(), in get(), in execute()
\* or returning, one at a time.
ThreadStep(w) == Recv(w) \/ GetConn(w) \/ GetFail(w) \/ DeleteExecute(w) \/ Return(w)

\* Every actor thread and every handler future that can take a step does:
\* the threads are scheduled by the operating system and a resolved future is
\* polled again.  A thread inside get() leaves it with a connection or with
\* the timeout error.  Clients are not obliged to send requests.
Fairness ==
    /\ \A w \in Workers : WF_vars(ThreadStep(w))
    /\ \A r \in ReqIds : WF_vars(delete_then(r))

FairSpec == Spec /\ Fairness

\* ------------------------------------------------------------------ claims
Arrived == 1..Len(reqs)
InMailbox(r) == \E i \in 1..Len(mailbox) : mailbox[i].rid = r
HeldByWorker(r) == \E w \in Workers : wmsg[w].rid = r
IdleWorker == \E w \in Workers : wstate[w] = "idle"

\* A message that was received by a thread and whose result has not arrived.
Running(r) == sent[r] > 0 /\ ~InMailbox(r) /\ reply[r].kind = "None"

IsDigit(c) == c \in {"0", "1", "2", "3", "4", "5", "6", "7", "8", "9"}

\* A request the client got wrong: a path id with a character that is no
\* digit, or a body that is not a complete JSON object.
MalformedPath(i) == HasPath(i.route) /\ \E k \in 1..Len(i.path) : ~IsDigit(i.path[k])
MalformedBody(i) == HasJson(i.route) /\ i.body = BadBody
Malformed(i) == MalformedPath(i) \/ MalformedBody(i)

\* C1: every message sent to the pool brings its handler exactly one result
\* of the message's declared type: for Delete a row count or a store error.
C1_OneTypedResult ==
    \A r \in ReqIds :
        reply[r].kind # "None" =>
            /\ sent[r] = 1
            /\ reply[r].kind \in {"Ok", "Err"}
            /\ reply[r].kind = "Ok" => reply[r].val \in Nat

\* C2: with more requests than threads, every request whose message was sent
\* is eventually answered.
C2_AllComplete ==
    \A r \in ReqIds : (hstate[r] = "awaiting") ~> (hstate[r] = "responded")

HeldConns == {wconn[w] : w \in Workers} \ {0}

\* C3: a thread holds one connection of its own from get() until handle
\* returns and none outside it; every connection is either idle in the pool
\* or held by exactly one thread, also after a statement that failed.
C3_ExclusiveConnection ==
    /\ \A w \in Workers :
         IF wstate[w] \in {"execute", "return"}
         THEN wconn[w] \in Conns /\ wconn[w] \notin free
         ELSE wconn[w] = 0
    /\ \A v, w \in Workers : (v # w /\ wconn[v] # 0) => wconn[v] # wconn[w]
    /\ free \cup HeldConns = Conns

\* A thread holds the only connection after another request's statement
\* failed and released it, while a second thread waits in get().
C3_Witness ==
    \E r \in ReqIds, v, w \in Workers :
        /\ reply[r].kind = "Err"
        /\ wstate[v] = "execute" /\ wconn[v] \in Conns
        /\ wstate[w] = "get"

\* C4: a failure of the store, also of get(), comes back as the message's
\* error value and leaves the thread running.
C4_FailureIsValue ==
    /\ \A w \in Workers : wstate[w] # "dead"
    /\ \A r \in ReqIds : getFailed[r] # "no" => reply[r].kind = "Err"

\* C5: a message whose get() found the pool exhausted is never run by the
\* store and never queued or handled again; its sender is resolved with an
\* error and the request is answered with the error response.
C5_ExhaustionNotRetried ==
    \A r \in ReqIds :
        getFailed[r] = "exhausted" =>
            /\ execCount[r] = 0
            /\ sent[r] = 1
            /\ ~InMailbox(r) /\ ~HeldByWorker(r)
            /\ reply[r].kind = "Closed"
            /\ hstate[r] \in {"awaiting", "responded"}
            /\ hstate[r] = "responded" => resp[r].status = 500

C5_Witness ==
    \E r \in ReqIds :
        /\ getFailed[r] = "exhausted"
        /\ hstate[r] = "responded"
        /\ resp[r].status = 500

\* C6: a request whose statement returned a store error ends with one error
\* response; the error is not swallowed and the message is not run again.
C6_ErrorGetsResponse ==
    \A r \in ReqIds :
        reply[r].kind = "Err" =>
            /\ execCount[r] = 1
            /\ hstate[r] \in {"awaiting", "responded"}
            /\ hstate[r] = "responded" => resp[r].status >= 400

\* C7: a malformed request is answered 400 with {"message": <string>} and
\* nothing is sent to the pool or run by the store for it.
C7_DecodeFailureNeverSubmits ==
    \A r \in Arrived :
        Malformed(reqs[r]) =>
            /\ hstate[r] = "responded"
            /\ resp[r].status = 400
            /\ Len(resp[r].body) = 2
            /\ resp[r].body[1] = "message"
            /\ resp[r].body[2] \in {JsonErrText, PathErrText}
            /\ sent[r] = 0
            /\ execCount[r] = 0
            /\ ~InMailbox(r) /\ ~HeldByWorker(r)
            /\ reply[r].kind = "None"

\* A malformed request was answered while a thread was handling the message
\* of an earlier request, and the store has run no statement.
C7_Witness ==
    \E p, r \in Arrived :
        /\ Malformed(reqs[p]) /\ resp[p].status = 400
        /\ sent[r] = 1 /\ Running(r)
        /\ p > r
        /\ \A q \in ReqIds : execCount[q] = 0

\* A thread's statement has just returned Ok.
ExecutedOk(w) ==
    wstate[w] = "execute" /\ wstate'[w] = "return" /\ wres'[w].kind = "Ok"

RowExists(id) == \E s \in students : s.id = id

\* C8: a Delete that the store runs returns 1 when a row with the id is in
\* the table (and the row is gone afterwards) and 0 when none is; the count 1
\* is answered 200 with a message naming the id of the path, the count 0 is
\* answered 400.
C8_DeleteCountAndStatus ==
    /\ [][\A w \in Workers :
            ExecutedOk(w) =>
                /\ wres'[w].val = (IF RowExists(wmsg[w].id) THEN 1 ELSE 0)
                /\ ~RowExists(wmsg[w].id)']_vars
    /\ [](\A r \in Arrived :
            (reqs[r].route = DELETE_STUDENT /\ reply[r].kind = "Ok" /\ hstate[r] # "awaiting") =>
                /\ hstate[r] = "responded"
                /\ reply[r].val = 1 =>
                     /\ resp[r].status = 200
                     /\ resp[r].body[2][2] = ParseDigits(reqs[r].path, 0)
                /\ reply[r].val = 0 => resp[r].status = 400
                /\ reply[r].val \in {0, 1})

\* Two Deletes of the same id were answered: the first 200, the second 400.
C8_Witness ==
    \E q, r \in Arrived :
        /\ q # r
        /\ reqs[q] = reqs[r]
        /\ reply[q].kind = "Ok" /\ reply[q].val = 1 /\ resp[q].status = 200
        /\ reply[r].kind = "Ok" /\ reply[r].val = 0 /\ resp[r].status = 400

\* C9: never more statements are running than there are threads, and a
\* thread takes a message only when it holds none, its last one having
\* returned.
C9_OneCallPerUnit ==
    /\ [](Cardinality({r \in ReqIds : Running(r)}) <= Threads)
    /\ [][\A w \in Workers :
            (wmsg'[w] # wmsg[w] /\ wmsg'[w] # NoMsg) =>
                /\ wmsg[w] = NoMsg
                /\ wstate[w] = "idle"
                /\ wconn[w] = 0]_vars

\* Every thread is running a statement and a message waits in the mailbox.
C9_Witness ==
    /\ Cardinality({r \in ReqIds : Running(r)}) = Threads
    /\ \A w \in Workers : wstate[w] \in {"get", "execute", "return"}
    /\ mailbox # <<>>

\* C10: a message leaves the mailbox only from its head, to one idle thread;
\* and a message never stays in the mailbox while a thread stays idle: again
\* and again the mailbox is empty or no thread is idle.
C10_FifoWorkConserving ==
    /\ [][mailbox' # mailbox =>
            \/ /\ Len(mailbox') = Len(mailbox) + 1
               /\ SubSeq(mailbox', 1, Len(mailbox)) = mailbox
            \/ /\ mailbox # <<>>
               /\ mailbox' = Tail(mailbox)
               /\ \E w \in Workers : wstate[w] = "idle" /\ wmsg'[w] = Head(mailbox)]_vars
    /\ []<>(mailbox = <<>> \/ ~IdleWorker)

\* No thread is idle and two messages wait in the order they were sent.
C10_Witness ==
    /\ \A w \in Workers : wstate[w] \in {"get", "execute", "return"}
    /\ Len(mailbox) >= 2
    /\ mailbox[1].rid < mailbox[2].rid

Busy(w) == wstate[w] \in {"get", "execute", "return"}

MessagesOf(r) == Cardinality({i \in 1..Len(mailbox) : mailbox[i].rid = r})

\* C12: a request that decoded has sent exactly one message; its handler
\* goes from not started to waiting once and leaves the wait only when the
\* result has arrived, and it has no response before that.
C12_OneMessageOneSuspension ==
    /\ [](\A r \in Arrived :
            ~Malformed(reqs[r]) =>
                /\ sent[r] = 1
                /\ MessagesOf(r) <= 1
                /\ hstate[r] \in {"awaiting", "responded", "panicked"}
                /\ hstate[r] = "awaiting" => resp[r].status = 0
                /\ resp[r].status # 0 => (reply[r].kind # "None" /\ hstate[r] = "responded"))
    /\ [][\A r \in ReqIds :
            (hstate'[r] # hstate[r] /\ ~Malformed(reqs'[r])) =>
                \/ hstate[r] = "none" /\ hstate'[r] = "awaiting"
                \/ /\ hstate[r] = "awaiting"
                   /\ hstate'[r] \in {"responded", "panicked"}
                   /\ reply[r].kind # "None"]_vars

\* A DELETE was answered after its result arrived while a later request is
\* still waiting for its own.
C12_Witness ==
    \E q, r \in Arrived :
        /\ reqs[q].route = DELETE_STUDENT
        /\ sent[q] = 1 /\ reply[q].kind = "Ok" /\ resp[q].status = 200
        /\ q < r /\ hstate[r] = "awaiting" /\ reply[r].kind = "None"

\* A request of the route whose message came back Ok.
Succeeded(r, route) ==
    r \in Arrived /\ reqs[r].route = route /\ reply[r].kind = "Ok"

\* A thread's statement for the operation has just returned Ok.
ExecutedOp(w, op) == ExecutedOk(w) /\ wmsg[w].op = op

\* C13: every record a Create returned has an identifier that is present,
\* differs from that of every other created record and from those the table
\* started with; the rows of the table have pairwise different identifiers.
C13_CreateIdsDistinct ==
    /\ \A r \in ReqIds :
         Succeeded(r, POST_STUDENTS) =>
            /\ reply[r].val.id >= 1
            /\ reply[r].val.id \notin 1..InitRows
            /\ \A q \in ReqIds \ {r} :
                 Succeeded(q, POST_STUDENTS) => reply[q].val.id # reply[r].val.id
    /\ \A s, t \in students : s.id = t.id => s = t
    /\ \A s \in students : s.id >= 1

\* Two Creates returned their records and both are in the table.
C13_Witness ==
    \E q, r \in ReqIds :
        /\ q # r
        /\ Succeeded(q, POST_STUDENTS) /\ Succeeded(r, POST_STUDENTS)
        /\ reply[q].val \in students /\ reply[r].val \in students

C15_UpdateExistingOrNothing ==
    [][\A w \in Workers :
         /\ ExecutedOp(w, "Update") =>
              IF RowExists(wmsg[w].id)
              THEN /\ wres'[w].val = 1
                   /\ Row(wmsg[w].id, wmsg[w].field) \in students'
                   /\ \A s \in students : s.id # wmsg[w].id => s \in students'
                   /\ Cardinality(students') = Cardinality(students)
              ELSE /\ wres'[w].val = 0
                   /\ students' = students
         /\ ExecutedOp(w, "Read") =>
              \A u \in ReqIds :
                 (Succeeded(u, PUT_STUDENT) /\ reply[u].val = 1
                     /\ RowExists(ParseDigits(reqs[u].path, 0))) =>
                    Row(ParseDigits(reqs[u].path, 0), JsonField(reqs[u].body))
                        \in wres'[w].val]_vars

\* An Update returned 1 and a later listing shows the new fields.
C15_Witness ==
    \E u, r \in ReqIds :
        /\ Succeeded(u, PUT_STUDENT) /\ reply[u].val = 1
        /\ Succeeded(r, GET_STUDENTS)
        /\ Row(1, JsonField(reqs[u].body)) \in reply[r].val
        /\ Row(1, "a") \notin reply[r].val

\* C16: an Authenticate the store ran returns a positive outcome for the
\* right credential and a negative one for a wrong credential; the negative
\* outcome is answered neither 500 nor 400 (nor as a success).
C16_AuthOutcome ==
    \A r \in ReqIds :
        Succeeded(r, POST_LOGIN) =>
            /\ reqs[r].body = LoginBody =>
                 /\ reply[r].val = TRUE
                 /\ hstate[r] = "responded" => resp[r].status = 200
            /\ reqs[r].body = WrongLoginBody =>
                 /\ reply[r].val = FALSE
                 /\ hstate[r] = "responded" => resp[r].status \notin {200, 400, 500}

\* The right credential was answered 200 and a wrong one 401.
C16_Witness ==
    \E q, r \in Arrived :
        /\ reqs[q].body = LoginBody /\ resp[q].status = 200
        /\ reqs[r].body = WrongLoginBody /\ resp[r].status = 401

\* C17: a count of 0 is answered by operation: a Delete that removed no row
\* gets 400, an Update that changed no row gets a response of the success
\* range that carries the 0.
C17_ZeroCountStatus ==
    \A r \in ReqIds :
        /\ (Succeeded(r, DELETE_STUDENT) /\ hstate[r] = "responded"
               /\ reply[r].val = 0) =>
              /\ resp[r].status = 400
              /\ resp[r].body = NotDeletedBody(0)
        /\ (Succeeded(r, PUT_STUDENT) /\ hstate[r] = "responded"
               /\ reply[r].val = 0) =>
              /\ resp[r].status \in 200..299
              /\ resp[r].body = <<"Update", 0>>

\* A Delete removed the row and the Update of the same id that followed
\* changed no row and was answered 200.
C17_Witness ==
    \E q, r \in ReqIds :
        /\ Succeeded(q, DELETE_STUDENT) /\ reply[q].val = 1
        /\ Succeeded(r, PUT_STUDENT) /\ reply[r].val = 0
        /\ IdOf(q) = IdOf(r)
        /\ resp[q].status = 200 /\ resp[r].status = 200

\* The number of requests up to r whose path or body did not decode.
DecodeFailuresUpTo(r) == Cardinality({q \in 1..r : Malformed(reqs[q])})

C19_DeleteFrame ==
    [][/\ students' # students =>
            \E w \in Workers :
                ExecutedOp(w, "Delete") /\ wres'[w].val >= 1
       /\ \A w \in Workers :
            ExecutedOp(w, "Delete") =>
               /\ \A s \in students : s.id # wmsg[w].id => s \in students'
               /\ \A s \in students : s.id = wmsg[w].id => s \notin students'
               /\ students' \subseteq students
               /\ wres'[w].val = Cardinality(students \ students')
               /\ wres'[w].val = 0 => students' = students]_vars

\* One Delete removed the row, a second one of the same id removed none,
\* and the rows of the other ids are all there.
C19_Witness ==
    \E q, r \in ReqIds :
        /\ q # r
        /\ reply[q].kind = "Ok" /\ reply[q].val = 1
        /\ reply[r].kind = "Ok" /\ reply[r].val = 0
        /\ students = {Row(i, "a") : i \in 1..InitRows} \ {Row(IdOf(q), "a")}
        /\ Cardinality(students) = InitRows - 1

\* The connections that are out of the pool.
Borrowed == Conns \ free

\* C20: never more connections are out of the pool than threads are inside
\* handle, which are at most Threads (12 in main); with every thread outside
\* handle, after statements that succeeded or failed, none is out.
C20_NoConnectionLeak ==
    /\ Cardinality(Borrowed) <= Cardinality({w \in Workers : Busy(w)})
    /\ Cardinality({w \in Workers : Busy(w)}) <= Threads
    /\ (\A w \in Workers : ~Busy(w)) => Borrowed = {}

\* A statement succeeded, another failed, no thread is inside handle and
\* every connection is back.
C20_Witness ==
    \E q, r \in ReqIds :
        /\ reply[q].kind = "Ok" /\ reply[r].kind = "Err"
        /\ \A w \in Workers : ~Busy(w)
        /\ free = Conns

====
